---- MODULE Spec2Model ----
(***************************************************************************)
(* Model of zero/common/gpt2.py: the configuration builder gpt2_builder,   *)
(* the configuration write of build_data, and build_data's nested          *)
(* tokenize function.                                                      *)
(*                                                                         *)
(* A Python dict is a TLA+ function whose DOMAIN is the set of its keys.   *)
(* CONFIG['hyperparameter'] holds a REFERENCE to a dict object: line 197   *)
(* stores the module-level table _default_hyperparameters itself, so the   *)
(* model keeps a heap of the two dict objects the reference can name.      *)
(* Floats are kept as their decimal text ("0.00015"); they are only ever   *)
(* copied.                                                                 *)
(***************************************************************************)
EXTENDS Integers, Sequences, FiniteSets, TLC

VARIABLES
    CONFIG,     \* common.utils.CONFIG: top-level dict
    heap,       \* object id -> hyperparameter dict object
    environ,    \* os.environ restricted to DATA and TOKENIZER
    op,         \* the operation that ran last
    outcome,    \* how it ended: "returned" or the exception raised
    repeated,   \* TRUE when the last two operations were both gpt2_builder
    examples,   \* batch handed to tokenize: a sequence of token-id sequences
    tokenized   \* what tokenize returned for that batch

vars == <<CONFIG, heap, environ, op, outcome, repeated, examples, tokenized>>

(***************************************************************************)
(* Bounds of the model.                                                    *)
(***************************************************************************)
\* entries a caller sets by hand, over CONFIG['model'], CONFIG['hyperparameter']
\* and (through the alias) the default table
MaxUserKeys == 1
\* texts in one tokenize batch, tokens in one text, largest seq_length tried
MaxTexts == 2
MaxTextLen == 2
MaxSeqLen == 3

(***************************************************************************)
(* dict helpers                                                            *)
(***************************************************************************)
EmptyDict == [k \in {} |-> 0]

SetItem(d, k, v) == (k :> v) @@ d

Has(d, k) == k \in DOMAIN d

(***************************************************************************)
(* Module-level tables, lines 9-54.                                        *)
(***************************************************************************)
_gpt2_small ==
    [seq_length |-> 1024, vocab_size |-> 50257, hidden_size |-> 768,
     num_heads |-> 12, depth |-> 12, checkpoint |-> FALSE, evaluation |-> "ppl"]

_gpt2_xl ==
    [seq_length |-> 1024, vocab_size |-> 50257, hidden_size |-> 1600,
     num_heads |-> 25, depth |-> 48, checkpoint |-> TRUE, evaluation |-> "ppl"]

_gpt2_10b ==
    [seq_length |-> 1024, vocab_size |-> 50257, hidden_size |-> 4096,
     num_heads |-> 16, depth |-> 50, checkpoint |-> TRUE, evaluation |-> "ppl"]

_gpt2_configurations ==
    [gpt2 |-> _gpt2_small, gpt2_small |-> _gpt2_small,
     gpt2_xl |-> _gpt2_xl, gpt2_10b |-> _gpt2_10b]

\* iteration order of a preset's items(): insertion order of lines 10-16
PresetKeys ==
    <<"seq_length", "vocab_size", "hidden_size", "num_heads", "depth",
      "checkpoint", "evaluation">>

\* the value _default_hyperparameters is created with
DefaultHyperparameters ==
    [tokenize_mode |-> "concat", batch_size |-> 4, learning_rate |-> "0.00015",
     weight_decay |-> "0.01", num_epochs |-> 2, warmup_epochs |-> 1,
     steps_per_epoch |-> 100]

\* iteration order of _default_hyperparameters.items()
HyperKeys ==
    <<"tokenize_mode", "batch_size", "learning_rate", "weight_decay",
      "num_epochs", "warmup_epochs", "steps_per_epoch">>

\* the two dict objects CONFIG['hyperparameter'] can refer to
DefaultsObj == "_default_hyperparameters"
CallerObj == "caller_hyperparameters"

Range(s) == {s[i] : i \in DOMAIN s}

(***************************************************************************)
(* What a caller puts into the configuration by hand.  One value per key,  *)
(* different from every preset and default value of that key wherever the  *)
(* key's type allows.                                                      *)
(***************************************************************************)
UserModelValue ==
    [seq_length |-> 512, vocab_size |-> 32000, hidden_size |-> 1024,
     num_heads |-> 8, depth |-> 24, checkpoint |-> TRUE, evaluation |-> "acc"]

UserHyperValue ==
    [tokenize_mode |-> "pad", batch_size |-> 8, learning_rate |-> "0.001",
     weight_decay |-> "0.1", num_epochs |-> 10, warmup_epochs |-> 3,
     steps_per_epoch |-> 50]

\* CONFIG['model']['type'] values tried: the four preset names and one other
ModelTypes == {"gpt2", "gpt2_small", "gpt2_xl", "gpt2_10b", "bert"}

\* os.environ: DATA and TOKENIZER each set to a path or unset
Environments ==
    {[DATA |-> "/env/data", TOKENIZER |-> "/env/tok"], [DATA |-> "/env/data"],
     [TOKENIZER |-> "/env/tok"], EmptyDict}

\* len(tokenizer) for the vocabulary files a tokenizer path can hold
TokenizerLengths == {50257, 50258}

UserCount(d, values) == Cardinality({k \in DOMAIN d \cap DOMAIN values : d[k] = values[k]})

Mutated(d) == Cardinality({k \in DOMAIN d : d[k] # DefaultHyperparameters[k]})

\* the dict CONFIG['hyperparameter'] refers to
Hyper(cfg, hp) == hp[cfg["hyperparameter"]]

(***************************************************************************)
(* gpt2_builder, lines 185-202.  Each statement is an operator on the      *)
(* running call m = [CONFIG, heap, outcome]; once a statement has raised,  *)
(* the statements after it do nothing.                                     *)
(***************************************************************************)
Raise(m, exc) == [m EXCEPT !.outcome = exc]

\* line 186: model_type = CONFIG['model']['type']
ReadModelType(m) ==
    IF m.outcome # "running" THEN m
    ELSE IF ~Has(m.CONFIG, "model") THEN Raise(m, "KeyError: 'model'")
    ELSE IF ~Has(m.CONFIG["model"], "type") THEN Raise(m, "KeyError: 'type'")
    ELSE m

\* the loop as it would run with a break after its first assignment
FillFirstAbsent(d, table, keys) ==
    LET absent == {i \in DOMAIN keys : ~Has(d, keys[i])}
    IN IF absent = {} THEN d
       ELSE LET first == CHOOSE i \in absent : \A j \in absent : i <= j
            IN SetItem(d, keys[first], table[keys[first]])

\* lines 188-190 and 193-195: for k, v in table.items(): if k not in d: d[k] = v
RECURSIVE FillAbsent(_, _, _)
FillAbsent(d, table, keys) ==
    IF keys = << >> THEN d
    ELSE LET k == Head(keys)
         IN FillAbsent(IF Has(d, k) THEN d ELSE SetItem(d, k, table[k]),
                       table, Tail(keys))

\* the merge as CONFIG['model'].update(preset): preset values win
MergePresetUpdate(m) ==
    IF m.outcome # "running" THEN m
    ELSE LET model == m.CONFIG["model"]
             model_type == model["type"]
         IN IF model_type \in DOMAIN _gpt2_configurations
            THEN [m EXCEPT !.CONFIG = SetItem(@, "model",
                     _gpt2_configurations[model_type] @@ model)]
            ELSE m

\* the merge with _gpt2_configurations.get(model_type, _gpt2_small)
MergePresetFallback(m) ==
    IF m.outcome # "running" THEN m
    ELSE LET model == m.CONFIG["model"]
             model_type == model["type"]
             preset == IF model_type \in DOMAIN _gpt2_configurations
                       THEN _gpt2_configurations[model_type] ELSE _gpt2_small
         IN [m EXCEPT !.CONFIG = SetItem(@, "model", FillAbsent(model, preset, PresetKeys))]

\* lines 187-190
MergePreset(m) ==
    IF m.outcome # "running" THEN m
    ELSE LET model == m.CONFIG["model"]
             model_type == model["type"]
         IN IF model_type \in DOMAIN _gpt2_configurations
            THEN [m EXCEPT !.CONFIG = SetItem(@, "model",
                     FillAbsent(model, _gpt2_configurations[model_type], PresetKeys))]
            ELSE m

\* the merge as CONFIG['hyperparameter'].update(defaults): default values win
MergeDefaultsUpdate(m) ==
    IF m.outcome # "running" THEN m
    ELSE IF Has(m.CONFIG, "hyperparameter")
    THEN [m EXCEPT !.heap[m.CONFIG["hyperparameter"]] = m.heap[DefaultsObj] @@ @]
    ELSE [m EXCEPT !.CONFIG = SetItem(@, "hyperparameter", DefaultsObj)]

\* lines 192-197; line 197 stores the module-level table itself, not a copy
MergeDefaults(m) ==
    IF m.outcome # "running" THEN m
    ELSE IF Has(m.CONFIG, "hyperparameter")
    THEN [m EXCEPT !.heap[m.CONFIG["hyperparameter"]] =
                        FillAbsent(@, m.heap[DefaultsObj], HyperKeys)]
    ELSE [m EXCEPT !.CONFIG = SetItem(@, "hyperparameter", DefaultsObj)]

\* line 199 as CONFIG.setdefault('dataset', os.environ['DATA'])
SetDatasetIfAbsent(m, env) ==
    IF m.outcome # "running" THEN m
    ELSE IF ~Has(env, "DATA") THEN Raise(m, "KeyError: 'DATA'")
    ELSE IF Has(m.CONFIG, "dataset") THEN m
    ELSE [m EXCEPT !.CONFIG = SetItem(@, "dataset", env["DATA"])]

\* line 199: CONFIG['dataset'] = os.environ['DATA']
SetDataset(m, env) ==
    IF m.outcome # "running" THEN m
    ELSE IF ~Has(env, "DATA") THEN Raise(m, "KeyError: 'DATA'")
    ELSE [m EXCEPT !.CONFIG = SetItem(@, "dataset", env["DATA"])]

\* line 200 as CONFIG['tokenizer'] = os.environ.get('TOKENIZER', '')
SetTokenizerOptional(m, env) ==
    IF m.outcome # "running" THEN m
    ELSE [m EXCEPT !.CONFIG = SetItem(@, "tokenizer",
                                      IF Has(env, "TOKENIZER") THEN env["TOKENIZER"] ELSE "")]

\* line 200 with the dataset entry removed again when TOKENIZER is missing
SetTokenizerUndo(m, env) ==
    IF m.outcome # "running" THEN m
    ELSE IF ~Has(env, "TOKENIZER")
    THEN [m EXCEPT !.CONFIG = [k \in DOMAIN @ \ {"dataset"} |-> @[k]],
                   !.outcome = "KeyError: 'TOKENIZER'"]
    ELSE [m EXCEPT !.CONFIG = SetItem(@, "tokenizer", env["TOKENIZER"])]

\* line 200: CONFIG['tokenizer'] = os.environ['TOKENIZER']
SetTokenizer(m, env) ==
    IF m.outcome # "running" THEN m
    ELSE IF ~Has(env, "TOKENIZER") THEN Raise(m, "KeyError: 'TOKENIZER'")
    ELSE [m EXCEPT !.CONFIG = SetItem(@, "tokenizer", env["TOKENIZER"])]

\* line 202
Return(m) == IF m.outcome # "running" THEN m ELSE [m EXCEPT !.outcome = "returned"]

\* the whole call: the configuration and heap it leaves behind, and how it ends
gpt2_builder(cfg, hp, env) ==
    LET m0 == [CONFIG |-> cfg, heap |-> hp, outcome |-> "running"]
    IN Return(SetTokenizer(SetDataset(MergeDefaults(MergePreset(ReadModelType(m0))),
                                      env), env))

GptBuilder ==
    LET r == gpt2_builder(CONFIG, heap, environ)
    IN /\ CONFIG' = r.CONFIG
       /\ heap' = r.heap
       /\ op' = "gpt2_builder"
       /\ outcome' = r.outcome
       /\ repeated' = (op = "gpt2_builder")
       /\ UNCHANGED <<environ, examples, tokenized>>

(***************************************************************************)
(* build_data.tokenize, lines 73-94, mode 'concat'.  The tokenizer itself  *)
(* is outside this file: examples is what it returned as input_ids, one    *)
(* list of token ids per text, and its attention_mask is a 1 per token.    *)
(* The 'pad' branch (lines 89-90) is one call into the tokenizer.          *)
(***************************************************************************)
Min(a, b) == IF a <= b THEN a ELSE b

\* list(chain(*lists)), line 79
RECURSIVE Chain(_)
Chain(lists) == IF lists = << >> THEN << >> ELSE Head(lists) \o Chain(Tail(lists))

\* the Python slice t[i:j] for 0 <= i <= j
Slice(t, i, j) == SubSeq(t, i + 1, Min(j, Len(t)))

\* lines 80-82 without the rounding down of lines 81-82
TotalLengthNoFloor(len, seq_len) == len

\* lines 80-82
TotalLength(len, seq_len) ==
    IF len >= seq_len THEN (len \div seq_len) * seq_len ELSE len

\* line 85: [t[i:i + seq_len] for i in range(0, total_length, seq_len)]
Chunks(t, total_length, seq_len) ==
    [n \in 1..((total_length + seq_len - 1) \div seq_len) |->
        Slice(t, (n - 1) * seq_len, (n - 1) * seq_len + seq_len)]

tokenize(ex, seq_len) ==
    LET encoded == [input_ids |-> ex,
                    attention_mask |-> [i \in DOMAIN ex |-> [j \in DOMAIN ex[i] |-> 1]]]
        concatenated_examples == [k \in DOMAIN encoded |-> Chain(encoded[k])]
        \* list(examples.keys())[0] is 'input_ids'
        total_length == TotalLength(Len(concatenated_examples["input_ids"]), seq_len)
        result == [k \in DOMAIN encoded |->
                      Chunks(concatenated_examples[k], total_length, seq_len)]
    IN SetItem(result, "labels", result["input_ids"])

\* Dataset.map hands the batch to tokenize
Tokenize ==
    /\ op = "map"
    /\ tokenized' = tokenize(examples, CONFIG["model"]["seq_length"])
    /\ op' = "tokenize"
    /\ outcome' = "returned"
    /\ UNCHANGED <<CONFIG, heap, environ, repeated, examples>>

(***************************************************************************)
(* build_data, lines 57-132: its reads and its one write of CONFIG.        *)
(* load_from_disk, GPT2Tokenizer, Dataset.map and DataLoader are taken to  *)
(* succeed; map calls tokenize on at least one batch; n is len(tokenizer). *)
(***************************************************************************)
build_data(cfg, hp, n) ==
    IF ~Has(cfg, "dataset") THEN [CONFIG |-> cfg, outcome |-> "KeyError: 'dataset'"]
    ELSE IF ~Has(cfg, "tokenizer") THEN [CONFIG |-> cfg, outcome |-> "KeyError: 'tokenizer'"]
    ELSE IF ~Has(cfg, "hyperparameter")
    THEN [CONFIG |-> cfg, outcome |-> "KeyError: 'hyperparameter'"]
    ELSE IF ~Has(Hyper(cfg, hp), "tokenize_mode")
    THEN [CONFIG |-> cfg, outcome |-> "KeyError: 'tokenize_mode'"]
    ELSE IF ~Has(cfg, "model") THEN [CONFIG |-> cfg, outcome |-> "KeyError: 'model'"]
    ELSE IF ~Has(cfg["model"], "seq_length")
    THEN [CONFIG |-> cfg, outcome |-> "KeyError: 'seq_length'"]
    ELSE LET written == SetItem(cfg, "model", SetItem(cfg["model"], "vocab_size", n))
         IN IF ~Has(Hyper(cfg, hp), "batch_size")
            THEN [CONFIG |-> written, outcome |-> "KeyError: 'batch_size'"]
            ELSE [CONFIG |-> written, outcome |-> "returned"]

BuildData ==
    \E n \in TokenizerLengths :
        LET r == build_data(CONFIG, heap, n)
        IN /\ CONFIG' = r.CONFIG
           /\ op' = "build_data"
           /\ outcome' = r.outcome
           /\ repeated' = FALSE
           /\ UNCHANGED <<heap, environ, examples, tokenized>>

(***************************************************************************)
(* The caller: code outside gpt2.py that owns CONFIG.                      *)
(***************************************************************************)
\* hand-set entries of the configuration, and entries of the default table
\* that no longer hold the value the table was created with
UserTotal(cfg, hp) ==
    (IF Has(cfg, "model") THEN UserCount(cfg["model"], UserModelValue) ELSE 0)
    + UserCount(hp[CallerObj], UserHyperValue)
    + Mutated(hp[DefaultsObj])

\* CONFIG['model'][k] = v
CallerSetModel ==
    /\ Has(CONFIG, "model")
    /\ \E k \in Range(PresetKeys) :
        CONFIG' = SetItem(CONFIG, "model", SetItem(CONFIG["model"], k, UserModelValue[k]))
    /\ UserTotal(CONFIG', heap) <= MaxUserKeys
    /\ op' = "caller"
    /\ outcome' = "none"
    /\ repeated' = FALSE
    /\ UNCHANGED <<heap, environ, examples, tokenized>>

\* CONFIG['hyperparameter'][k] = v: a write to whichever dict the entry refers to
CallerSetHyper ==
    /\ Has(CONFIG, "hyperparameter")
    /\ \E k \in Range(HyperKeys) :
        heap' = [heap EXCEPT ![CONFIG["hyperparameter"]] = SetItem(@, k, UserHyperValue[k])]
    /\ UserTotal(CONFIG, heap') <= MaxUserKeys
    /\ op' = "caller"
    /\ outcome' = "none"
    /\ repeated' = FALSE
    /\ UNCHANGED <<CONFIG, environ, examples, tokenized>>

\* del CONFIG['hyperparameter']: the entry is dropped before a further run
CallerDelHyper ==
    /\ Has(CONFIG, "hyperparameter")
    /\ CONFIG' = [k \in DOMAIN CONFIG \ {"hyperparameter"} |-> CONFIG[k]]
    /\ heap' = [heap EXCEPT ![CallerObj] = EmptyDict]
    /\ op' = "caller"
    /\ outcome' = "none"
    /\ repeated' = FALSE
    /\ UNCHANGED <<environ, examples, tokenized>>

\* os.environ['DATA'] / os.environ['TOKENIZER'] set or removed
CallerSetEnv ==
    /\ \E e \in Environments \ {environ} : environ' = e
    /\ op' = "caller"
    /\ outcome' = "none"
    /\ repeated' = FALSE
    /\ UNCHANGED <<CONFIG, heap, examples, tokenized>>

\* the configuration as first loaded, before any hand-set preset or default key
InitialConfigs ==
    LET models == {EmptyDict} \cup {[type |-> t] : t \in ModelTypes}
        withModel == {EmptyDict} \cup {SetItem(EmptyDict, "model", m) : m \in models}
        withHyper == withModel \cup {SetItem(c, "hyperparameter", CallerObj) : c \in withModel}
        withData == withHyper \cup {SetItem(c, "dataset", "/old/data") : c \in withHyper}
    IN withData \cup {SetItem(c, "tokenizer", "/old/tok") : c \in withData}

Init ==
    /\ heap = [o \in {DefaultsObj, CallerObj} |->
                 IF o = DefaultsObj THEN DefaultHyperparameters ELSE EmptyDict]
    /\ CONFIG \in InitialConfigs
    /\ environ \in Environments
    /\ op = "import"
    /\ outcome = "none"
    /\ repeated = FALSE
    /\ examples = << >>
    /\ tokenized = EmptyDict

Next ==
    \/ GptBuilder
    \/ BuildData
    \/ CallerSetModel
    \/ CallerSetHyper
    \/ CallerDelHyper
    \/ CallerSetEnv

Spec == Init /\ [][Next]_vars

(***************************************************************************)
(* Tokenization on its own: one batch and one seq_length per behaviour.    *)
(***************************************************************************)
Tokens == {7, 8}

SeqsUpTo(S, n) == UNION {[1..i -> S] : i \in 0..n}

Batches == SeqsUpTo(SeqsUpTo(Tokens, MaxTextLen), MaxTexts)

InitTokenize ==
    /\ heap = [o \in {DefaultsObj, CallerObj} |->
                 IF o = DefaultsObj THEN DefaultHyperparameters ELSE EmptyDict]
    /\ \E n \in 1..MaxSeqLen :
          CONFIG = [model |-> [type |-> "gpt2", seq_length |-> n],
                    hyperparameter |-> DefaultsObj]
    /\ environ = EmptyDict
    /\ op = "map"
    /\ outcome = "none"
    /\ repeated = FALSE
    /\ examples \in Batches
    /\ tokenized = EmptyDict

NextTokenize == Tokenize

SpecTokenize == InitTokenize /\ [][NextTokenize]_vars

(***************************************************************************)
(* Vocabulary of the properties.                                           *)
(***************************************************************************)
\* CONFIG['model']['type'] can be read and names a preset
KnownType(cfg) ==
    /\ Has(cfg, "model")
    /\ Has(cfg["model"], "type")
    /\ cfg["model"]["type"] \in DOMAIN _gpt2_configurations

\* CONFIG['model']['type'] can be read and names no preset
UnknownType(cfg) ==
    /\ Has(cfg, "model")
    /\ Has(cfg["model"], "type")
    /\ cfg["model"]["type"] \notin DOMAIN _gpt2_configurations

\* CONFIG['model'][k] is v
ModelIs(k, v) ==
    Has(CONFIG, "model") /\ Has(CONFIG["model"], k) /\ CONFIG["model"][k] = v

\* CONFIG['hyperparameter'] is the dict object obj and holds v under k
HyperIs(obj, k, v) ==
    /\ Has(CONFIG, "hyperparameter")
    /\ CONFIG["hyperparameter"] = obj
    /\ Has(heap[obj], k)
    /\ heap[obj][k] = v

\* the top-level entry CONFIG[k] is v
EntryIs(k, v) == Has(CONFIG, k) /\ CONFIG[k] = v

\* both merges of gpt2_builder have been carried out on this configuration
MergesDone(cfg, hp) ==
    /\ KnownType(cfg) => \A k \in Range(PresetKeys) : Has(cfg["model"], k)
    /\ Has(cfg, "hyperparameter")
    /\ \A k \in Range(HyperKeys) : Has(Hyper(cfg, hp), k)

\* entry k of the top-level configuration is the same before and after
SameEntry(k) ==
    /\ Has(CONFIG, k) <=> Has(CONFIG', k)
    /\ Has(CONFIG, k) => CONFIG'[k] = CONFIG[k]

\* every key of CONFIG['model'] keeps its value, vocab_size perhaps excepted
ModelKeysKept(except) ==
    Has(CONFIG, "model") =>
        /\ Has(CONFIG', "model")
        /\ \A k \in DOMAIN CONFIG["model"] \ except :
              /\ Has(CONFIG'["model"], k)
              /\ CONFIG'["model"][k] = CONFIG["model"][k]

\* the 'hyperparameter' entry names the same dict, whose keys keep their values
HyperKeysKept ==
    Has(CONFIG, "hyperparameter") =>
        /\ Has(CONFIG', "hyperparameter")
        /\ CONFIG'["hyperparameter"] = CONFIG["hyperparameter"]
        /\ \A k \in DOMAIN Hyper(CONFIG, heap) :
              /\ Has(Hyper(CONFIG', heap'), k)
              /\ Hyper(CONFIG', heap')[k] = Hyper(CONFIG, heap)[k]

(***************************************************************************)
(* C1.  For a type that names a preset, after gpt2_builder returns every   *)
(* key of that preset is in CONFIG['model']: a key that was absent holds   *)
(* the preset's value, a key that was present holds the value it had.      *)
(***************************************************************************)
C1_PresetFillsAbsentKeys ==
    [][(op' = "gpt2_builder" /\ outcome' = "returned" /\ KnownType(CONFIG)) =>
        LET preset == _gpt2_configurations[CONFIG["model"]["type"]]
        IN \A k \in DOMAIN preset :
              /\ Has(CONFIG'["model"], k)
              /\ CONFIG'["model"][k] =
                    IF Has(CONFIG["model"], k) THEN CONFIG["model"][k] ELSE preset[k]]_vars

\* a returned call on type gpt2_xl that kept a hand-set hidden_size and filled depth
C1_Witness ==
    /\ op = "gpt2_builder" /\ outcome = "returned"
    /\ ModelIs("type", "gpt2_xl")
    /\ ModelIs("hidden_size", UserModelValue["hidden_size"])
    /\ ModelIs("depth", _gpt2_xl["depth"])

(***************************************************************************)
(* C2.  When the type names no preset, gpt2_builder leaves CONFIG['model'] *)
(* as it was: no key added, changed or removed.                            *)
(***************************************************************************)
C2_UnknownTypeLeavesModel ==
    [][(op' = "gpt2_builder" /\ UnknownType(CONFIG)) =>
        /\ Has(CONFIG', "model")
        /\ CONFIG'["model"] = CONFIG["model"]]_vars

\* a returned call on type bert whose model holds the type and one hand-set key
C2_Witness ==
    /\ op = "gpt2_builder" /\ outcome = "returned"
    /\ EntryIs("model", [type |-> "bert", depth |-> UserModelValue["depth"]])

(***************************************************************************)
(* C3.  After gpt2_builder returns every default hyperparameter key is in  *)
(* CONFIG['hyperparameter']: a key set before keeps its value, a key that  *)
(* was absent holds the default value of lines 46-54, and with no          *)
(* 'hyperparameter' entry before the call the entry holds exactly those.   *)
(***************************************************************************)
C3_DefaultsFillAbsentKeys ==
    [][(op' = "gpt2_builder" /\ outcome' = "returned") =>
        /\ Has(CONFIG', "hyperparameter")
        /\ \A k \in Range(HyperKeys) :
              /\ Has(Hyper(CONFIG', heap'), k)
              /\ Hyper(CONFIG', heap')[k] =
                    IF Has(CONFIG, "hyperparameter") /\ Has(Hyper(CONFIG, heap), k)
                    THEN Hyper(CONFIG, heap)[k]
                    ELSE DefaultHyperparameters[k]
        /\ ~Has(CONFIG, "hyperparameter") =>
              Hyper(CONFIG', heap') = DefaultHyperparameters]_vars

(***************************************************************************)
(* C4.  With DATA or TOKENIZER unset, gpt2_builder ends in a KeyError and  *)
(* does not return, whatever the configuration.                            *)
(***************************************************************************)
KeyErrors ==
    {"KeyError: 'model'", "KeyError: 'type'", "KeyError: 'DATA'", "KeyError: 'TOKENIZER'"}

C4_UnsetEnvironmentFails ==
    (op = "gpt2_builder" /\ (~Has(environ, "DATA") \/ ~Has(environ, "TOKENIZER")))
        => outcome \in KeyErrors

\* DATA set, TOKENIZER unset, a readable type: the call fails on TOKENIZER
C4_Witness ==
    /\ op = "gpt2_builder" /\ outcome = "KeyError: 'TOKENIZER'"
    /\ Has(environ, "DATA") /\ ~Has(environ, "TOKENIZER")

(***************************************************************************)
(* C5.  When gpt2_builder returns, CONFIG['dataset'] is DATA and           *)
(* CONFIG['tokenizer'] is TOKENIZER, whatever CONFIG held; and a call that *)
(* got as far as these assignments has carried out both merges.            *)
(***************************************************************************)
C5_PathsFromEnvironmentAfterMerges ==
    op = "gpt2_builder" =>
        /\ outcome = "returned" =>
              /\ Has(environ, "DATA") /\ EntryIs("dataset", environ["DATA"])
              /\ Has(environ, "TOKENIZER") /\ EntryIs("tokenizer", environ["TOKENIZER"])
        /\ outcome \in {"returned", "KeyError: 'DATA'", "KeyError: 'TOKENIZER'"} =>
              MergesDone(CONFIG, heap)

\* a returned call after which both paths are the environment's
C5_Witness ==
    /\ op = "gpt2_builder" /\ outcome = "returned"
    /\ EntryIs("dataset", "/env/data") /\ EntryIs("tokenizer", "/env/tok")
    /\ KnownType(CONFIG)

(***************************************************************************)
(* C6.  As claimed: across gpt2_builder and build_data calls no key that   *)
(* holds a value in CONFIG, CONFIG['model'] or CONFIG['hyperparameter']    *)
(* (dataset, tokenizer and vocab_size included) is given another value.    *)
(***************************************************************************)
C6_NoKeyOverwritten ==
    [][op' \in {"gpt2_builder", "build_data"} =>
        /\ ModelKeysKept({})
        /\ HyperKeysKept
        /\ Has(CONFIG, "dataset") => SameEntry("dataset")
        /\ Has(CONFIG, "tokenizer") => SameEntry("tokenizer")]_vars

(***************************************************************************)
(* C6, amended.  gpt2_builder gives no other value to any key that holds   *)
(* one in CONFIG['model'] or CONFIG['hyperparameter'], nor to the 'model'  *)
(* and 'hyperparameter' entries; build_data changes nothing of CONFIG but  *)
(* CONFIG['model']['vocab_size'].                                          *)
(***************************************************************************)
C6_MergesNeverOverwrite ==
    [][/\ op' = "gpt2_builder" => (ModelKeysKept({}) /\ HyperKeysKept)
       /\ op' = "build_data" =>
            /\ ModelKeysKept({"vocab_size"})
            /\ HyperKeysKept
            /\ SameEntry("dataset")
            /\ SameEntry("tokenizer")]_vars

\* build_data has replaced the preset vocab_size while a hand-set batch_size stands
C6_Witness ==
    /\ op = "build_data" /\ outcome = "returned"
    /\ ModelIs("vocab_size", 50258)
    /\ ModelIs("hidden_size", _gpt2_10b["hidden_size"])
    /\ HyperIs(CallerObj, "batch_size", UserHyperValue["batch_size"])
    /\ EntryIs("dataset", "/env/data")

(***************************************************************************)
(* C7.  A gpt2_builder call that fails on a missing environment variable   *)
(* leaves the merged preset keys and defaults in the configuration; with   *)
(* DATA set and TOKENIZER unset CONFIG['dataset'] has been assigned and    *)
(* CONFIG['tokenizer'] is as it was; with DATA unset both are as they were.*)
(***************************************************************************)
C7_NoRollbackOnFailure ==
    [][(op' = "gpt2_builder" /\ Has(CONFIG, "model") /\ Has(CONFIG["model"], "type")
        /\ (~Has(environ, "DATA") \/ ~Has(environ, "TOKENIZER"))) =>
        /\ outcome' = IF Has(environ, "DATA") THEN "KeyError: 'TOKENIZER'"
                                               ELSE "KeyError: 'DATA'"
        /\ MergesDone(CONFIG', heap')
        /\ ModelKeysKept({}) /\ HyperKeysKept
        /\ SameEntry("tokenizer")
        /\ IF Has(environ, "DATA")
           THEN Has(CONFIG', "dataset") /\ CONFIG'["dataset"] = environ["DATA"]
           ELSE SameEntry("dataset")]_vars

\* failed on TOKENIZER: preset filled, dataset assigned, the old tokenizer path stands
C7_Witness ==
    /\ op = "gpt2_builder" /\ outcome = "KeyError: 'TOKENIZER'"
    /\ ModelIs("type", "gpt2") /\ ModelIs("depth", _gpt2_small["depth"])
    /\ HyperIs(DefaultsObj, "batch_size", DefaultHyperparameters["batch_size"])
    /\ EntryIs("dataset", "/env/data")
    /\ EntryIs("tokenizer", "/old/tok")

(***************************************************************************)
(* C8.  The module-level default table holds the values it was created     *)
(* with in every reachable state, so that a gpt2_builder call on a         *)
(* configuration without a 'hyperparameter' entry yields those values.     *)
(***************************************************************************)
C8_DefaultTableKeepsItsValues ==
    /\ heap[DefaultsObj] = DefaultHyperparameters
    /\ (op = "gpt2_builder" /\ outcome = "returned"
        /\ EntryIs("hyperparameter", DefaultsObj)) =>
            Hyper(CONFIG, heap) = DefaultHyperparameters

(***************************************************************************)
(* C9.  tokenize in 'concat' mode, stream length T, seq_len > 0: the       *)
(* chunks are consecutive slices of the stream in order; T >= seq_len      *)
(* gives T \div seq_len chunks of length seq_len, the last T % seq_len     *)
(* tokens dropped; 0 < T < seq_len gives one chunk of length T; T = 0      *)
(* gives none; labels equals input_ids.                                    *)
(***************************************************************************)
C9_ConcatChunks ==
    op = "tokenize" =>
        LET seq_len == CONFIG["model"]["seq_length"]
            stream == Chain(examples)
            T == Len(stream)
            ids == tokenized["input_ids"]
        IN /\ Chain(ids) = SubSeq(stream, 1, Len(Chain(ids)))
           /\ T >= seq_len =>
                 /\ Len(ids) = T \div seq_len
                 /\ \A i \in DOMAIN ids : Len(ids[i]) = seq_len
                 /\ T - Len(Chain(ids)) = T % seq_len
           /\ (0 < T /\ T < seq_len) => (Len(ids) = 1 /\ Len(ids[1]) = T)
           /\ T = 0 => Len(ids) = 0
           /\ tokenized["labels"] = ids

\* four tokens cut at seq_len 3: one full chunk, one token dropped
C9_Witness ==
    /\ op = "tokenize"
    /\ CONFIG["model"]["seq_length"] = 3
    /\ examples = <<<<7, 8>>, <<8, 7>>>>
    /\ tokenized["input_ids"] = <<<<7, 8, 8>>>>

(***************************************************************************)
(* C10.  With a type in CONFIG['model'] and DATA and TOKENIZER set, a      *)
(* second gpt2_builder call right after a first changes nothing.           *)
(***************************************************************************)
C10_SecondCallChangesNothing ==
    [][(op = "gpt2_builder" /\ outcome = "returned" /\ op' = "gpt2_builder") =>
        /\ CONFIG' = CONFIG
        /\ heap' = heap
        /\ outcome' = "returned"]_vars

\* two calls in a row have returned, on a caller's dict with a hand-set key
C10_Witness ==
    /\ op = "gpt2_builder" /\ outcome = "returned" /\ repeated
    /\ KnownType(CONFIG)
    /\ HyperIs(CallerObj, "num_epochs", UserHyperValue["num_epochs"])
    /\ HyperIs(CallerObj, "batch_size", DefaultHyperparameters["batch_size"])

====
